---------------------------- MODULE Spec2Model ----------------------------
(***************************************************************************)
(* Audio capture / transcription session engine.                           *)
(*                                                                         *)
(*   python/routes/audio_route.py : AudioSession, SessionManager,          *)
(*       record_audio_thread and the /audio/start, /audio/stop,            *)
(*       /audio/status and /audio/stream handlers                          *)
(*   whisper/test_transcribe.py   : CircularBuffer, stream_with_vad        *)
(*                                                                         *)
(* The HTTP and WebSocket handlers are coroutines of one asyncio event     *)
(* loop: a handler runs without interleaving of other handlers between     *)
(* two of its await points.  thread.join(timeout=..) is a blocking call    *)
(* made on the event loop, so while a handler joins, no other handler      *)
(* runs; the capture threads (real threads) keep running.                  *)
(***************************************************************************)
EXTENDS Integers, Sequences, FiniteSets, TLC

\* ------------------------------------------------------------ bounds
MaxSessions == 2
MaxClock == 1
MaxReads == 4
NumWS == 1
MaxAdded == 4
MaxFail == 2

\* Bytes delivered by one stream.read, and bytes of one processed chunk
\* (chunk_target), scaled down from 3200 and 160000.
FrameBytes == 1
ChunkTarget == 2

\* ------------------------------------------------------------ constants
SAMPLE_RATE_HZ == 16000
BytesPerSample == 2

NoSession == 0
NoId == -1

Objs == 1..MaxSessions
Conns == 1..NumWS

\* Request bodies offered to /audio/start (thresholds in 1/1000, durations
\* in milliseconds).
DefaultCfg ==
    [vadThreshold |-> 13, preRollSeconds |-> 500,
     silenceTimeout |-> 300, maxSegmentSeconds |-> 5000]

Configs ==
    { DefaultCfg,
      [DefaultCfg EXCEPT !.vadThreshold = 2000],
      [DefaultCfg EXCEPT !.preRollSeconds = 0] }

VARIABLES
    clock,            \* reading of datetime.now(), in units of its resolution
    nalloc,           \* number of AudioSession objects constructed so far
    is_recording,     \* AudioSession.is_recording, per object
    stop_event,       \* AudioSession.stop_event (is_set), per object
    session_id,       \* AudioSession.session_id, per object
    transcriptions,   \* AudioSession.transcriptions, per object
    sessions,         \* SessionManager.sessions: the dict, in insertion order
    model,            \* SessionManager.model: 0 is None, else the instance
    nmodel,           \* number of WhisperModel constructor runs
    tpc,              \* position of each session's record_audio_thread
    tmodel,           \* the model each thread holds (0: none yet)
    dev,              \* each thread's input stream: none, open, released, failed
    buffer,           \* each thread's local buffer (bytes are numbered as read)
    nread,            \* number of successful stream.read calls of each thread
    nchunk,           \* number of chunks each thread has taken from its buffer
    chunk,            \* the chunk a thread is transcribing
    text,             \* what transcribe_audio last returned to each thread
    failed_reads,     \* failed stream.read calls of each thread under watch
    busy,             \* the handler that holds the event loop in a join
    ws,               \* each WebSocket handler's position and locals
    reply,            \* the last HTTP response
    calls,            \* parity of the number of HTTP calls answered
    cb_max_samples,   \* CircularBuffer.max_samples
    cb_buffer,        \* CircularBuffer.buffer
    cb_hist,          \* bytes added since construction or the last clear()
    vad_run,          \* stream_with_vad: its arguments and the frames to come
    input,            \* has_voice of the frames the stream has yet to deliver
    nframes,          \* number of stream.read calls returned
    pre_roll,         \* pre_roll.buffer
    current_chunk,    \* current_chunk
    speech_active,    \* speech_active
    silence_duration, \* silence_duration (a double)
    chunk_duration,   \* chunk_duration (a double)
    yielded,          \* the segments yielded so far, oldest first
    after_cutoff,     \* current_chunk was restarted by the cutoff of line 168
    vad_pc,           \* "off", "run" (in the while loop) or "done"
    pending,          \* main: the futures submitted and not yet reaped
    chunk_id,         \* main: chunk_id
    dropped_chunks,   \* main: dropped_chunks
    dropped_bytes,    \* main: dropped_bytes
    handled,          \* main: the payloads its loop body has run for
    hs_frames,        \* has_speech: what vad.is_speech does on each frame
    hs_len,           \* has_speech: len(audio_bytes)
    offset,           \* has_speech: offset
    speech_frames,    \* has_speech: speech_frames
    total_frames,     \* has_speech: total_frames
    hs_result         \* has_speech: "off", "loop", or the value returned

svars == <<clock, nalloc, is_recording, stop_event, session_id, transcriptions,
           sessions, model, nmodel>>
tvars == <<tpc, tmodel, dev, buffer, nread, nchunk, chunk, text,
           failed_reads>>
hvars == <<busy, ws, reply, calls>>
bvars == <<cb_max_samples, cb_buffer, cb_hist>>
pvars == <<hs_frames, hs_len, offset, speech_frames, total_frames, hs_result>>
vvars == <<vad_run, input, nframes, pre_roll, current_chunk, speech_active,
           silence_duration, chunk_duration, yielded, after_cutoff, vad_pc,
           pending, chunk_id, dropped_chunks, dropped_bytes, handled>>
vars == <<svars, tvars, hvars, bvars, pvars, vvars>>

\* ------------------------------------------------------------ SessionManager

\* self.sessions[session.session_id] = session
RegistryPut(reg, id, obj) ==
    IF \E i \in DOMAIN reg : reg[i].id = id
    THEN [i \in DOMAIN reg |->
            IF reg[i].id = id THEN [id |-> id, obj |-> obj] ELSE reg[i]]
    ELSE Append(reg, [id |-> id, obj |-> obj])

\* remove_session deleting nothing.
remove_session_keep(reg, id) == reg

remove_session(reg, id) ==
    SelectSeq(reg, LAMBDA e : e.id # id)

Registered(reg, obj) == \E i \in DOMAIN reg : reg[i].obj = obj

\* for sid, sess in sessions.items(): if sess.is_recording: ... break
RecordingIdx(reg, rec) == { i \in DOMAIN reg : rec[reg[i].obj] }

HasRecordingNever(reg, rec) == FALSE

HasRecording(reg, rec) == RecordingIdx(reg, rec) # {}

FirstRecording(reg, rec) ==
    reg[CHOOSE i \in RecordingIdx(reg, rec) :
            \A j \in RecordingIdx(reg, rec) : i <= j]

ThreadAlive(s) == tpc[s] \notin {"none", "dead"}

NoReply ==
    [op |-> "none", status |-> "none", session_id |-> NoId,
     transcriptions |-> <<>>, count |-> 0]

Idle ==
    [op |-> "none", todo |-> <<>>, joining |-> FALSE, obj |-> NoSession,
     sid |-> NoId, cfg |-> DefaultCfg, w |-> 0]

\* A WebSocket handler: its position, session and sent_count; flen is the
\* length of the transcript when the final slice was taken; why records how
\* the client ended the loop ("stop": receive_text returned "stop" or raised
\* WebSocketDisconnect, "disconnect": a send raised, "none": it did not);
\* got is what the client has been sent.
WsIdle ==
    [pc |-> "idle", sess |-> NoSession, sent |-> 0, flen |-> 0,
     why |-> "none", got |-> <<>>]

\* ------------------------------------------------------------ Init

\* The failed reads of the threads in watch are counted.
InitSessions(watch) ==
    /\ clock = 0
    /\ nalloc = 0
    /\ is_recording = [s \in Objs |-> FALSE]
    /\ stop_event = [s \in Objs |-> FALSE]
    /\ session_id = [s \in Objs |-> NoId]
    /\ transcriptions = [s \in Objs |-> <<>>]
    /\ sessions = <<>>
    /\ model = 0
    /\ nmodel = 0
    /\ tpc = [s \in Objs |-> "none"]
    /\ tmodel = [s \in Objs |-> 0]
    /\ dev = [s \in Objs |-> "none"]
    /\ buffer = [s \in Objs |-> <<>>]
    /\ nread = [s \in Objs |-> 0]
    /\ nchunk = [s \in Objs |-> 0]
    /\ chunk = [s \in Objs |-> <<>>]
    /\ text = [s \in Objs |-> "unset"]
    /\ failed_reads = [s \in watch |-> 0]
    /\ busy = Idle
    /\ ws = [w \in Conns |-> WsIdle]
    /\ reply = NoReply
    /\ calls = 0

InitRoute == InitSessions({})

InitNoBuffer ==
    /\ cb_max_samples = 0
    /\ cb_buffer = <<>>
    /\ cb_hist = <<>>

\* has_speech is not running.
InitNoSpeech ==
    /\ hs_frames = <<>>
    /\ hs_len = 0
    /\ offset = 0
    /\ speech_frames = 0
    /\ total_frames = 0
    /\ hs_result = "off"

\* stream_with_vad is not running.
InitNoVad ==
    /\ vad_run = [max_duration |-> 0, pre_roll_duration |-> 0,
                  silence_timeout |-> 0, frames |-> <<>>]
    /\ input = <<>>
    /\ nframes = 0
    /\ pre_roll = <<>>
    /\ current_chunk = <<>>
    /\ speech_active = FALSE
    /\ silence_duration = <<0, 0>>
    /\ chunk_duration = <<0, 0>>
    /\ yielded = <<>>
    /\ after_cutoff = FALSE
    /\ vad_pc = "off"
    /\ pending = <<>>
    /\ chunk_id = 0
    /\ dropped_chunks = 0
    /\ dropped_bytes = 0
    /\ handled = <<>>

Init == InitRoute /\ InitNoBuffer /\ InitNoVad /\ InitNoSpeech

\* ------------------------------------------------------------ the clock

\* datetime.now() moves on to its next reading.
Tick ==
    /\ clock < MaxClock
    /\ clock' = clock + 1
    /\ UNCHANGED <<nalloc, is_recording, stop_event, session_id, transcriptions,
                   sessions, model, nmodel, tvars, hvars, bvars, pvars, vvars>>

\* ------------------------------------------------------------ record_audio_thread
\* A thread's position is the blocking call it is in: "start" (entering
\* get_or_create_model), "loading" (the WhisperModel constructor), "open"
\* (p.open), "read" (stream.read), "transcribe" (transcribe_audio), "close"
\* (the finally block).  The local code between two blocking calls belongs to
\* the action of the call that returned.

\* get_or_create_model: the test of self.model.
ThreadGetModel(s) ==
    /\ tpc[s] = "start"
    /\ IF model = 0
       THEN /\ tpc' = [tpc EXCEPT ![s] = "loading"]
            /\ UNCHANGED tmodel
       ELSE /\ tpc' = [tpc EXCEPT ![s] = "open"]
            /\ tmodel' = [tmodel EXCEPT ![s] = model]
    /\ UNCHANGED <<svars, dev, buffer, nread, nchunk, chunk, text, failed_reads, hvars,
                   bvars, pvars, vvars>>

\* get_or_create_model: the constructor returns, self.model is assigned.
ThreadModelLoaded(s) ==
    /\ tpc[s] = "loading"
    /\ nmodel' = nmodel + 1
    /\ model' = nmodel + 1
    /\ tmodel' = [tmodel EXCEPT ![s] = nmodel + 1]
    /\ tpc' = [tpc EXCEPT ![s] = "open"]
    /\ UNCHANGED <<clock, nalloc, is_recording, stop_event, session_id,
                   transcriptions, sessions, dev, buffer, nread, nchunk, chunk,
                   text, failed_reads, hvars, bvars, pvars, vvars>>

\* while not session.stop_event.is_set(): the next blocking call.
LoopTestIgnoresStop(s) == "read"

LoopTest(s) == IF stop_event[s] THEN "close" ELSE "read"

\* while len(buffer) >= chunk_target: chunk = bytes(buffer[:chunk_target]);
\* buffer = buffer[chunk_target:]; if has_speech(chunk, vad): text =
\* transcribe_audio(chunk, model).  The loop runs from buffer b until a chunk
\* with speech is handed to transcribe_audio, or until b is shorter than a
\* chunk and the outer loop's test is made.  The VAD's verdict on each chunk
\* is an input.
RECURSIVE ChunkLoop(_, _, _)
ChunkLoop(s, b, k) ==
    IF Len(b) >= ChunkTarget
    THEN \E speech \in BOOLEAN :
           IF speech
           THEN /\ chunk' = [chunk EXCEPT ![s] = SubSeq(b, 1, ChunkTarget)]
                /\ buffer' = [buffer EXCEPT ![s] =
                                SubSeq(b, ChunkTarget + 1, Len(b))]
                /\ nchunk' = [nchunk EXCEPT ![s] = k + 1]
                /\ tpc' = [tpc EXCEPT ![s] = "transcribe"]
           ELSE ChunkLoop(s, SubSeq(b, ChunkTarget + 1, Len(b)), k + 1)
    ELSE /\ chunk' = [chunk EXCEPT ![s] = <<>>]
         /\ buffer' = [buffer EXCEPT ![s] = b]
         /\ nchunk' = [nchunk EXCEPT ![s] = k]
         /\ tpc' = [tpc EXCEPT ![s] = LoopTest(s)]

\* p.open(...): the stream opens and the loop is entered, or p.open raises
\* and the thread ends through "except Exception" and "finally".
ThreadOpen(s) ==
    /\ tpc[s] = "open"
    /\ \/ /\ dev' = [dev EXCEPT ![s] = "open"]
          /\ tpc' = [tpc EXCEPT ![s] = LoopTest(s)]
       \/ /\ dev' = [dev EXCEPT ![s] = "failed"]
          /\ tpc' = [tpc EXCEPT ![s] = "dead"]
    /\ UNCHANGED <<svars, tmodel, buffer, nread, nchunk, chunk, text, failed_reads, hvars,
                   bvars, pvars, vvars>>

\* Frames captured so far by the threads 1..n.
RECURSIVE FramesRead(_)
FramesRead(n) == IF n = 0 THEN 0 ELSE nread[n] + FramesRead(n - 1)

\* The bytes of the n-th read, numbered in the order they are captured.
FrameData(n) == [i \in 1..FrameBytes |-> n * FrameBytes + i]

ExtendReplaces(b, data) == data

\* buffer.extend(data)
Extend(b, data) == b \o data

\* data = stream.read(...); buffer.extend(data); the chunk loop.
ThreadRead(s) ==
    /\ tpc[s] = "read"
    /\ FramesRead(MaxSessions) < MaxReads
    /\ nread' = [nread EXCEPT ![s] = @ + 1]
    /\ ChunkLoop(s, Extend(buffer[s], FrameData(nread[s])), nchunk[s])
    /\ UNCHANGED <<svars, tmodel, dev, text, failed_reads, hvars, bvars, pvars, vvars>>

ThreadReadErrorEnds(s) ==
    /\ tpc[s] = "read"
    /\ tpc' = [tpc EXCEPT ![s] = "close"]
    /\ failed_reads' = IF s \in DOMAIN failed_reads /\ failed_reads[s] < MaxFail
                       THEN [failed_reads EXCEPT ![s] = @ + 1]
                       ELSE failed_reads
    /\ UNCHANGED <<svars, tmodel, dev, buffer, nread, nchunk, chunk, text,
                   hvars, bvars, pvars, vvars>>

\* stream.read raises: except Exception: log_error; time.sleep(0.1), and
\* the loop's test is made again.
ThreadReadError(s) ==
    /\ tpc[s] = "read"
    /\ tpc' = [tpc EXCEPT ![s] = LoopTest(s)]
    /\ failed_reads' = IF s \in DOMAIN failed_reads /\ failed_reads[s] < MaxFail
                       THEN [failed_reads EXCEPT ![s] = @ + 1]
                       ELSE failed_reads
    /\ UNCHANGED <<svars, tmodel, dev, buffer, nread, nchunk, chunk, text,
                   hvars, bvars, pvars, vvars>>

TranscribedAlways(tr, s, outcome, k) ==
    [tr EXCEPT ![s] = Append(@, [text |-> k, is_final |-> TRUE])]

\* if text: session.transcriptions.append(transcription), for the outcome of
\* transcribe_audio on the k-th chunk.  An entry's text stands for the chunk
\* it was made from.
Transcribed(tr, s, outcome, k) ==
    IF outcome = "text"
    THEN [tr EXCEPT ![s] = Append(@, [text |-> k, is_final |-> TRUE])]
    ELSE tr

LoopEndsOnError(outcome) == outcome # "error"

\* transcribe_audio catches every Exception of the engine and returns None
\* (lines 124-126), so no outcome takes the thread out of its while loop.
LoopGoesOn(outcome) == TRUE

\* text = transcribe_audio(chunk, model) returns text, or None for an empty
\* result ("empty") or an engine error ("error", caught and logged inside
\* transcribe_audio); if text: session.transcriptions.append(...).  The
\* chunk loop goes on.
ThreadTranscribe(s) ==
    /\ tpc[s] = "transcribe"
    /\ \E outcome \in {"text", "empty", "error"} :
         /\ text' = [text EXCEPT ![s] = outcome]
         /\ transcriptions' =
                Transcribed(transcriptions, s, outcome, nchunk[s])
         /\ IF LoopGoesOn(outcome)
            THEN ChunkLoop(s, buffer[s], nchunk[s])
            ELSE /\ tpc' = [tpc EXCEPT ![s] = "close"]
                 /\ UNCHANGED <<buffer, nchunk, chunk>>
    /\ UNCHANGED <<clock, nalloc, is_recording, stop_event, session_id,
                   sessions, model, nmodel, tmodel, dev, nread, failed_reads,
                   hvars, bvars, pvars, vvars>>

ThreadCloseLeak(s) ==
    /\ tpc[s] = "close"
    /\ tpc' = [tpc EXCEPT ![s] = "dead"]
    /\ UNCHANGED <<svars, tmodel, dev, buffer, nread, nchunk, chunk, text, failed_reads,
                   hvars, bvars, pvars, vvars>>

\* finally: stream.stop_stream(); stream.close(); p.terminate()
ThreadClose(s) ==
    /\ tpc[s] = "close"
    /\ dev' = [dev EXCEPT ![s] = "released"]
    /\ tpc' = [tpc EXCEPT ![s] = "dead"]
    /\ UNCHANGED <<svars, tmodel, buffer, nread, nchunk, chunk, text, failed_reads, hvars,
                   bvars, pvars, vvars>>

\* The next step of the thread of s.
ThreadStep(s) ==
    \/ ThreadGetModel(s)
    \/ ThreadModelLoaded(s)
    \/ ThreadOpen(s)
    \/ ThreadRead(s)
    \/ ThreadReadError(s)
    \/ ThreadTranscribe(s)
    \/ ThreadClose(s)

Thread == \E s \in Objs : ThreadStep(s)

\* ------------------------------------------------------------ AudioSession

\* session = AudioSession(); self.sessions[session.session_id] = session;
\* session.is_recording = True; session.thread = Thread(...); thread.start()
\* The new object is number nalloc + 1; its id is the clock's reading.
CreateAndLaunch(reg) ==
    LET n == nalloc + 1 IN
    /\ nalloc' = n
    /\ session_id' = [session_id EXCEPT ![n] = clock]
    /\ sessions' = RegistryPut(reg, clock, n)
    /\ is_recording' = [is_recording EXCEPT ![n] = TRUE]
    /\ tpc' = [tpc EXCEPT ![n] = "start"]

\* ------------------------------------------------------------ POST /audio/start

\* The request arrives; list(session_manager.sessions.items()) is taken.
StartCall(cfg) ==
    /\ busy = Idle
    /\ nalloc < MaxSessions
    /\ busy' = [Idle EXCEPT !.op = "start", !.todo = sessions, !.cfg = cfg]
    /\ UNCHANGED <<svars, tvars, ws, reply, calls, bvars, pvars, vvars>>

\* One turn of "for sid, sess in ...": a session that is not recording is
\* passed over; a recording one has its stop_event set and is joined when its
\* thread is alive, else removed at once.
StartLoop ==
    /\ busy.op = "start"
    /\ ~busy.joining
    /\ busy.todo # <<>>
    /\ LET e == Head(busy.todo) IN
       IF ~is_recording[e.obj]
       THEN /\ busy' = [busy EXCEPT !.todo = Tail(@)]
            /\ UNCHANGED <<stop_event, sessions>>
       ELSE /\ stop_event' = [stop_event EXCEPT ![e.obj] = TRUE]
            /\ IF ThreadAlive(e.obj)
               THEN /\ busy' = [busy EXCEPT !.joining = TRUE]
                    /\ UNCHANGED sessions
               ELSE /\ busy' = [busy EXCEPT !.todo = Tail(@)]
                    /\ sessions' = remove_session(sessions, e.id)
    /\ UNCHANGED <<clock, nalloc, is_recording, session_id, transcriptions,
                   model, nmodel, tvars, ws, reply, calls, bvars, pvars, vvars>>

\* StartJoined with a join that has no timeout.
StartJoinedWaits ==
    /\ busy.op = "start"
    /\ busy.joining
    /\ ~ThreadAlive(Head(busy.todo).obj)
    /\ LET e == Head(busy.todo) IN
       sessions' = remove_session(sessions, e.id)
    /\ busy' = [busy EXCEPT !.joining = FALSE, !.todo = Tail(@)]
    /\ UNCHANGED <<clock, nalloc, is_recording, stop_event, session_id,
                   transcriptions, model, nmodel, tvars, ws, reply, calls,
                   bvars, pvars, vvars>>

\* sess.thread.join(timeout=2) returns, the thread having ended or the
\* timeout having expired; session_manager.remove_session(sid)
StartJoined ==
    /\ busy.op = "start"
    /\ busy.joining
    /\ LET e == Head(busy.todo) IN
       sessions' = remove_session(sessions, e.id)
    /\ busy' = [busy EXCEPT !.joining = FALSE, !.todo = Tail(@)]
    /\ UNCHANGED <<clock, nalloc, is_recording, stop_event, session_id,
                   transcriptions, model, nmodel, tvars, ws, reply, calls,
                   bvars, pvars, vvars>>

\* The loop is over: create the session, start its thread, answer.
StartCreate ==
    /\ busy.op = "start"
    /\ busy.todo = <<>>
    /\ CreateAndLaunch(sessions)
    /\ reply' = [op |-> "start", status |-> "recording", session_id |-> clock,
                 transcriptions |-> <<>>, count |-> 0]
    /\ calls' = 1 - calls
    /\ busy' = Idle
    /\ UNCHANGED <<clock, stop_event, transcriptions, model, nmodel,
                   tmodel, dev, buffer, nread, nchunk, chunk, text, failed_reads, ws,
                   bvars, pvars, vvars>>

\* ------------------------------------------------------------ POST /audio/stop

\* StopReturn without the call of remove_session.
StopReturnNoRemove(s, sid) ==
    /\ sessions' = sessions
    /\ reply' = [op |-> "stop", status |-> "stopped", session_id |-> sid,
                 transcriptions |-> transcriptions[s], count |-> 0]
    /\ calls' = 1 - calls

\* transcriptions = active_session.transcriptions.copy();
\* session_manager.remove_session(session_id); return StopResponse(...)
StopReturn(s, sid) ==
    /\ sessions' = remove_session(sessions, sid)
    /\ reply' = [op |-> "stop", status |-> "stopped", session_id |-> sid,
                 transcriptions |-> transcriptions[s], count |-> 0]
    /\ calls' = 1 - calls

\* StopNotFound emptying the registry before it raises.
StopNotFoundClears ==
    /\ busy = Idle
    /\ ~HasRecording(sessions, is_recording)
    /\ reply' = [NoReply EXCEPT !.op = "stop", !.status = "404"]
    /\ calls' = 1 - calls
    /\ sessions' = <<>>
    /\ UNCHANGED <<clock, nalloc, is_recording, stop_event, session_id,
                   transcriptions, model, nmodel, tvars, busy, ws,
                   bvars, pvars, vvars>>

\* No session is recording: HTTPException(status_code=404).
StopNotFound ==
    /\ busy = Idle
    /\ ~HasRecording(sessions, is_recording)
    /\ reply' = [NoReply EXCEPT !.op = "stop", !.status = "404"]
    /\ calls' = 1 - calls
    /\ UNCHANGED <<svars, tvars, busy, ws, bvars, pvars, vvars>>

\* The first recording session is found: stop_event.set();
\* is_recording = False; join when the thread is alive.
StopCall ==
    /\ busy = Idle
    /\ HasRecording(sessions, is_recording)
    /\ LET e == FirstRecording(sessions, is_recording) IN
       /\ stop_event' = [stop_event EXCEPT ![e.obj] = TRUE]
       /\ is_recording' = [is_recording EXCEPT ![e.obj] = FALSE]
       /\ IF ThreadAlive(e.obj)
          THEN /\ busy' = [Idle EXCEPT !.op = "stop", !.obj = e.obj, !.sid = e.id]
               /\ UNCHANGED <<sessions, reply, calls>>
          ELSE /\ StopReturn(e.obj, e.id)
               /\ UNCHANGED busy
    /\ UNCHANGED <<clock, nalloc, session_id, transcriptions, model, nmodel,
                   tvars, ws, bvars, pvars, vvars>>

\* active_session.thread.join(timeout=5) returns; the response is made.
StopJoined ==
    /\ busy.op = "stop"
    /\ StopReturn(busy.obj, busy.sid)
    /\ busy' = Idle
    /\ UNCHANGED <<clock, nalloc, is_recording, stop_event, session_id,
                   transcriptions, model, nmodel, tvars, ws, bvars, pvars, vvars>>

\* ------------------------------------------------------------ GET /audio/status

StatusReplyIdle(reg, rec, tr) ==
    [op |-> "status", status |-> "idle", session_id |-> NoId,
     transcriptions |-> <<>>, count |-> 0]

\* get_status: the response
StatusReply(reg, rec, tr) ==
    IF HasRecording(reg, rec)
    THEN LET e == FirstRecording(reg, rec) IN
         [op |-> "status", status |-> "active", session_id |-> e.id,
          transcriptions |-> <<>>, count |-> Len(tr[e.obj])]
    ELSE [op |-> "status", status |-> "idle", session_id |-> NoId,
          transcriptions |-> <<>>, count |-> 0]

Status ==
    /\ busy = Idle
    /\ reply' = StatusReply(sessions, is_recording, transcriptions)
    /\ calls' = 1 - calls
    /\ UNCHANGED <<svars, tvars, busy, ws, bvars, pvars, vvars>>

\* ------------------------------------------------------------ WS /audio/stream

\* await websocket.accept()
WsAccept(w) ==
    /\ busy = Idle
    /\ ws[w].pc = "idle"
    /\ ws' = [ws EXCEPT ![w].pc = "accepted"]
    /\ UNCHANGED <<svars, tvars, busy, reply, calls, bvars, pvars, vvars>>

\* "while session.is_recording:" and the test of the inner while: the await
\* the handler reaches next, or "closing" when the outer loop ends (the
\* finally block then finds is_recording false and only closes).
LoopTop(rec, tr, s, sent) ==
    IF rec[s]
    THEN IF sent < Len(tr[s]) THEN "sending" ELSE "waiting"
    ELSE "closing"

\* The search for a recording session; without one, a session is created and
\* its thread started, and the "started" status message is awaited.
WsAttach(w) ==
    /\ busy = Idle
    /\ ws[w].pc = "accepted"
    /\ IF HasRecording(sessions, is_recording)
       THEN LET s == FirstRecording(sessions, is_recording).obj IN
            /\ ws' = [ws EXCEPT ![w].sess = s,
                        ![w].pc = LoopTop(is_recording, transcriptions, s, 0)]
            /\ UNCHANGED <<nalloc, session_id, sessions, is_recording, tpc>>
       ELSE /\ nalloc < MaxSessions
            /\ CreateAndLaunch(sessions)
            /\ ws' = [ws EXCEPT ![w].sess = nalloc + 1, ![w].pc = "started"]
    /\ UNCHANGED <<clock, stop_event, transcriptions, model, nmodel,
                   tmodel, dev, buffer, nread, nchunk, chunk, text, failed_reads,
                   busy, reply, calls, bvars, pvars, vvars>>

\* await websocket.send_json({"type": "status", ...}) returns, or raises
\* outside the try block: the handler ends there.
WsStarted(w) ==
    /\ busy = Idle
    /\ ws[w].pc = "started"
    /\ \/ ws' = [ws EXCEPT ![w].pc =
                    LoopTop(is_recording, transcriptions, ws[w].sess, 0)]
       \/ ws' = [ws EXCEPT ![w].pc = "aborted"]
    /\ UNCHANGED <<svars, tvars, busy, reply, calls, bvars, pvars, vvars>>

\* final_transcriptions = session.transcriptions[sent_count:] and what
\* follows the join in the finally block: the slice is sent entry by entry,
\* then remove_session.
AfterJoin(w, why) ==
    LET s == ws[w].sess
        n == Len(transcriptions[s]) IN
    IF ws[w].sent < n
    THEN /\ ws' = [ws EXCEPT ![w].pc = "final_send", ![w].flen = n,
                             ![w].why = why]
         /\ UNCHANGED sessions
    ELSE /\ ws' = [ws EXCEPT ![w].pc = "closing", ![w].flen = n,
                             ![w].why = why]
         /\ sessions' = remove_session(sessions, session_id[s])

\* finally: if session and session.is_recording: stop_event.set();
\* is_recording = False; join(timeout=2) when the thread is alive.
WsCleanup(w, why) ==
    LET s == ws[w].sess IN
    IF is_recording[s]
    THEN /\ stop_event' = [stop_event EXCEPT ![s] = TRUE]
         /\ is_recording' = [is_recording EXCEPT ![s] = FALSE]
         /\ IF ThreadAlive(s)
            THEN /\ busy' = [Idle EXCEPT !.op = "ws", !.w = w, !.obj = s]
                 /\ ws' = [ws EXCEPT ![w].pc = "final_join", ![w].why = why]
                 /\ UNCHANGED sessions
            ELSE /\ AfterJoin(w, why)
                 /\ UNCHANGED busy
    ELSE /\ ws' = [ws EXCEPT ![w].pc = "closing", ![w].why = why]
         /\ UNCHANGED <<stop_event, is_recording, sessions, busy>>

NextToSendLast(tr, s, sent) == tr[s][Len(tr[s])]

\* transcription = session.transcriptions[sent_count]
NextToSend(tr, s, sent) == tr[s][sent + 1]

\* await websocket.send_json({"type": "transcription", ...}) in the loop
\* returns (sent_count += 1) or raises (the finally block runs).
WsSent(w) ==
    /\ busy = Idle
    /\ ws[w].pc = "sending"
    /\ \/ /\ ws' = [ws EXCEPT ![w].sent = @ + 1,
                       ![w].got = Append(@, NextToSend(transcriptions,
                                            ws[w].sess, ws[w].sent)),
                       ![w].pc = IF ws[w].sent + 1 <
                                      Len(transcriptions[ws[w].sess])
                                 THEN "sending" ELSE "waiting"]
          /\ UNCHANGED <<stop_event, is_recording, sessions, busy>>
       \/ WsCleanup(w, "disconnect")
    /\ UNCHANGED <<clock, nalloc, session_id, transcriptions, model, nmodel,
                   tvars, reply, calls, bvars, pvars, vvars>>

\* await asyncio.sleep(0.1); await wait_for(websocket.receive_text(), 0.1):
\* a timeout or another message goes round the loop; "stop" breaks; a
\* disconnect raises WebSocketDisconnect.  Both end in the finally block and
\* run the same code there; that the client is gone shows in the first send
\* of the final slice, which then raises (WsFinalSent).
WsWait(w) ==
    /\ busy = Idle
    /\ ws[w].pc = "waiting"
    /\ \/ /\ ws' = [ws EXCEPT ![w].pc =
                       LoopTop(is_recording, transcriptions,
                               ws[w].sess, ws[w].sent)]
          /\ UNCHANGED <<stop_event, is_recording, sessions, busy>>
       \/ WsCleanup(w, "stop")
    /\ UNCHANGED <<clock, nalloc, session_id, transcriptions, model, nmodel,
                   tvars, reply, calls, bvars, pvars, vvars>>

\* session.thread.join(timeout=2) returns in the finally block.
WsJoined(w) ==
    /\ busy.op = "ws"
    /\ busy.w = w
    /\ AfterJoin(w, ws[w].why)
    /\ busy' = Idle
    /\ UNCHANGED <<clock, nalloc, is_recording, stop_event, session_id,
                   transcriptions, model, nmodel, tvars, reply, calls,
                   bvars, pvars, vvars>>

\* One send of the final slice returns, or raises ("except: break"): it
\* raises when the client has disconnected, and the client may disconnect
\* now.  sent stands for the position in final_transcriptions.
WsFinalSent(w) ==
    LET next == NextToSend(transcriptions, ws[w].sess, ws[w].sent) IN
    /\ busy = Idle
    /\ ws[w].pc = "final_send"
    /\ \/ /\ ws[w].why = "stop"
          /\ ws[w].sent + 1 < ws[w].flen
          /\ ws' = [ws EXCEPT ![w].sent = @ + 1, ![w].got = Append(@, next)]
          /\ UNCHANGED sessions
       \/ /\ ws[w].why = "stop"
          /\ ws[w].sent + 1 >= ws[w].flen
          /\ ws' = [ws EXCEPT ![w].sent = @ + 1, ![w].got = Append(@, next),
                              ![w].pc = "closing"]
          /\ sessions' = remove_session(sessions, session_id[ws[w].sess])
       \/ /\ ws' = [ws EXCEPT ![w].pc = "closing", ![w].why = "disconnect"]
          /\ sessions' = remove_session(sessions, session_id[ws[w].sess])
    /\ UNCHANGED <<clock, nalloc, is_recording, stop_event, session_id,
                   transcriptions, model, nmodel, tvars, busy, reply, calls,
                   bvars, pvars, vvars>>

\* await websocket.close()
WsClose(w) ==
    /\ busy = Idle
    /\ ws[w].pc = "closing"
    /\ ws' = [ws EXCEPT ![w].pc = "closed"]
    /\ UNCHANGED <<svars, tvars, busy, reply, calls, bvars, pvars, vvars>>

WebSocket ==
    \E w \in Conns :
        \/ WsAccept(w)
        \/ WsAttach(w)
        \/ WsStarted(w)
        \/ WsSent(w)
        \/ WsWait(w)
        \/ WsJoined(w)
        \/ WsFinalSent(w)
        \/ WsClose(w)

\* ------------------------------------------------------------ specification

Http ==
    \/ \E cfg \in Configs : StartCall(cfg)
    \/ StartLoop
    \/ StartJoined
    \/ StartCreate
    \/ StopNotFound
    \/ StopCall
    \/ StopJoined
    \/ Status

Next == Tick \/ Thread \/ Http \/ WebSocket

Spec == Init /\ [][Next]_vars

\* ------------------------------------------------------------ the capture loops under watch
\* The start and stop handlers and the threads, with every thread's failed
\* reads counted.  The clock stands still: with these handlers alone the
\* registry never holds two sessions, so the ids decide nothing.

InitCapture ==
    InitSessions(Objs) /\ InitNoBuffer /\ InitNoVad /\ InitNoSpeech

NextCapture ==
    \/ Thread
    \/ \E cfg \in Configs : StartCall(cfg)
    \/ StartLoop
    \/ StartJoined
    \/ StartCreate
    \/ StopNotFound
    \/ StopCall
    \/ StopJoined

SpecCapture == InitCapture /\ [][NextCapture]_vars

\* Every blocking call of a thread returns (or raises): the model loads,
\* p.open and stream.read return, the engine finishes a chunk, and the
\* thread is scheduled again.
SpecCaptureFair == SpecCapture /\ \A s \in Objs : WF_vars(ThreadStep(s))

\* A handler that has started runs on: the event loop resumes it and its
\* join(timeout) returns when the timeout expires, if not before.  Nothing
\* is assumed of the threads.
HandlerStep == StartLoop \/ StartJoined \/ StartCreate \/ StopJoined

SpecHandlersFair == SpecCapture /\ WF_vars(HandlerStep)

\* ------------------------------------------------------------ CircularBuffer

\* Pre-roll durations offered to the constructor, in microseconds.
Durations == {0, 50, 63, 125, 188}

Bytes == {0, 1}

Chunks == {<<>>} \cup [1..1 -> Bytes] \cup [1..2 -> Bytes]

\* int(duration_seconds * sample_rate), for a duration of us microseconds
\* that is not negative (the quotient is taken in two steps to keep the
\* product small).
CbMaxSamples(us) == (us * (SAMPLE_RATE_HZ \div 1000)) \div 1000

\* Python's b[start:] for any integer start
PySliceFrom(b, start) ==
    LET from == IF start < 0
                THEN (IF Len(b) + start < 0 THEN 0 ELSE Len(b) + start)
                ELSE (IF start > Len(b) THEN Len(b) ELSE start)
    IN SubSeq(b, from + 1, Len(b))

\* CircularBuffer.add
CbAddResult(b, c, max_samples) ==
    LET ext == b \o c
        max_bytes == max_samples * BytesPerSample
    IN IF Len(ext) > max_bytes THEN PySliceFrom(ext, 0 - max_bytes) ELSE ext

InitBuffer ==
    /\ InitRoute
    /\ InitNoVad
    /\ InitNoSpeech
    /\ \E us \in Durations : cb_max_samples = CbMaxSamples(us)
    /\ cb_buffer = <<>>
    /\ cb_hist = <<>>

CbAdd(c) ==
    /\ Len(cb_hist) + Len(c) <= MaxAdded
    /\ cb_buffer' = CbAddResult(cb_buffer, c, cb_max_samples)
    /\ cb_hist' = cb_hist \o c
    /\ UNCHANGED <<cb_max_samples, svars, tvars, hvars, vvars, pvars>>

\* CircularBuffer.clear
CbClear ==
    /\ cb_buffer' = <<>>
    /\ cb_hist' = <<>>
    /\ UNCHANGED <<cb_max_samples, svars, tvars, hvars, vvars, pvars>>

NextBuf == (\E c \in Chunks : CbAdd(c)) \/ CbClear

SpecBuf == InitBuffer /\ [][NextBuf]_vars

\* ------------------------------------------------------------ doubles
\* Python floats are IEEE-754 doubles.  stream_with_vad accumulates durations
\* in steps of 0.1, which no double equals, and compares the sums with its
\* thresholds, so the sums are computed here as the machine computes them.
\* A double x with x = 0 or 1/16 <= x < 8 is the pair <<hi, lo>> with
\* x = (hi * 2^28 + lo) / 2^56 and 0 <= lo < 2^28: every double of that range
\* is a whole number of units of 2^-56.

Word == 2 ^ 28

FZero == <<0, 0>>

\* The number of low bits of the pair that a 53-bit significand cannot hold.
Binade(hi) ==
    IF hi >= 4 * Word THEN 6
    ELSE IF hi >= 2 * Word THEN 5
    ELSE IF hi >= Word THEN 4
    ELSE IF hi >= Word \div 2 THEN 3
    ELSE IF hi >= Word \div 4 THEN 2
    ELSE IF hi >= Word \div 8 THEN 1
    ELSE 0

\* Round to nearest, ties to even, of the exact value
\* (hi * 2^28 + lo + r / d) units, where 0 <= r < d.
RoundEven(hi, lo, r, d) ==
    LET k == Binade(hi)
        u == 2 ^ k
        low == lo % u
        base == lo - low
        odd == (base \div u) % 2 = 1
        up == IF k = 0
              THEN 2 * r > d \/ (2 * r = d /\ odd)
              ELSE \/ 2 * low > u
                   \/ 2 * low = u /\ (r > 0 \/ odd)
        lo2 == IF up THEN base + u ELSE base
    IN IF lo2 >= Word THEN <<hi + 1, lo2 - Word>> ELSE <<hi, lo2>>

\* x + y on doubles
FAdd(a, b) ==
    LET lo == a[2] + b[2]
        hi == a[1] + b[1] + (lo \div Word)
    IN RoundEven(hi, lo % Word, 0, 1)

\* The next k binary digits of r / d, and the remainder.
RECURSIVE DivBits(_, _, _)
DivBits(r, d, k) ==
    IF k = 0 THEN <<0, r>>
    ELSE LET b == IF 2 * r >= d THEN 1 ELSE 0
             rest == DivBits(2 * r - b * d, d, k - 1)
         IN <<b * 2 ^ (k - 1) + rest[1], rest[2]>>

\* n / d on integers (Python's true division), and the double that a
\* decimal literal n / d denotes.
FDiv(n, d) ==
    LET h == DivBits(n % d, d, 28)
        l == DivBits(h[2], d, 28)
    IN RoundEven((n \div d) * Word + h[1], l[1], l[2], d)

\* x >= y on doubles
FGeq(a, b) == a[1] > b[1] \/ (a[1] = b[1] /\ a[2] >= b[2])

\* ------------------------------------------------------------ has_speech
\* A chunk is its length and what vad.is_speech does on each of its complete
\* frames: it returns True ("speech") or False ("quiet"), or it raises.

MaxVadFrames == 5

SAMPLE_RATE == 16000
FRAME_DURATION_MS == 30

\* frame_bytes = int(SAMPLE_RATE * frame_duration / 1000) * 2
frame_bytes == ((SAMPLE_RATE * FRAME_DURATION_MS) \div 1000) * 2

Verdicts == {"speech", "quiet", "raise"}

\* The bytes that follow the last complete frame of a chunk.
Remainders == {0, frame_bytes \div 3}

InitSpeech ==
    /\ InitRoute
    /\ InitNoBuffer
    /\ InitNoVad
    /\ \E n \in 0..MaxVadFrames, r \in Remainders :
         /\ hs_frames \in [1..n -> Verdicts]
         /\ hs_len = n * frame_bytes + r
    /\ offset = 0
    /\ speech_frames = 0
    /\ total_frames = 0
    /\ hs_result = "loop"

\* "(speech_frames / total_frames) > 0.2", in doubles
RatioPasses(sf, tf) == ~FGeq(FDiv(2, 10), FDiv(sf, tf))

\* One turn of "while offset + frame_bytes <= len(audio_bytes)": a frame on
\* which vad.is_speech raises is counted in neither counter.
HsFrame ==
    /\ hs_result = "loop"
    /\ offset + frame_bytes <= hs_len
    /\ LET v == hs_frames[offset \div frame_bytes + 1] IN
       /\ speech_frames' = IF v = "speech" THEN speech_frames + 1
                           ELSE speech_frames
       /\ total_frames' = IF v = "raise" THEN total_frames
                          ELSE total_frames + 1
    /\ offset' = offset + frame_bytes
    /\ UNCHANGED <<hs_frames, hs_len, hs_result, svars, tvars, hvars, bvars,
                   vvars>>

\* The loop is over: "if total_frames == 0: return False", and the ratio
\* test.
HsReturn ==
    /\ hs_result = "loop"
    /\ offset + frame_bytes > hs_len
    /\ hs_result' = IF total_frames = 0 THEN "False"
                    ELSE IF RatioPasses(speech_frames, total_frames)
                    THEN "True" ELSE "False"
    /\ UNCHANGED <<hs_frames, hs_len, offset, speech_frames, total_frames,
                   svars, tvars, hvars, bvars, vvars>>

NextSpeech == HsFrame \/ HsReturn

SpecSpeech == InitSpeech /\ [][NextSpeech]_vars

\* ------------------------------------------------------------ stream_with_vad
\* Audio is kept as a sequence of runs: [f, lo, hi] stands for the bytes
\* lo .. hi-1 of the f-th frame read from the input stream.

MaxFrames == 7

\* --queue-capacity of the runs of main (its default is 8)
QueueCapacity == 1

BYTES_PER_SAMPLE == 2
BYTES_PER_SECOND == SAMPLE_RATE_HZ * BYTES_PER_SAMPLE

\* frames_per_read = max(1, int(SAMPLE_RATE_HZ * chunk_size_seconds)), with
\* the chunk_size_seconds = 0.1 of the call in main.
FramesPerRead == 1600

\* audio_bytes of the f-th stream.read
AudioBytes(f) ==
    <<[f |-> f, lo |-> 0, hi |-> FramesPerRead * BYTES_PER_SAMPLE]>>

\* len(b)
RECURSIVE ByteLen(_)
ByteLen(b) ==
    IF b = <<>> THEN 0 ELSE Head(b).hi - Head(b).lo + ByteLen(Tail(b))

\* b without its first k bytes
RECURSIVE DropBytes(_, _)
DropBytes(b, k) ==
    IF k = 0 \/ b = <<>> THEN b
    ELSE LET n == Head(b).hi - Head(b).lo IN
         IF k >= n THEN DropBytes(Tail(b), k - n)
         ELSE <<[Head(b) EXCEPT !.lo = @ + k]>> \o Tail(b)

\* Python's b[start:] on runs
RunSliceFrom(b, start) ==
    LET n == ByteLen(b)
        from == IF start < 0
                THEN (IF n + start < 0 THEN 0 ELSE n + start)
                ELSE (IF start > n THEN n ELSE start)
    IN DropBytes(b, from)

\* pre_roll.add(audio_bytes): CircularBuffer.add on runs
PreRollAdd(b, c, max_samples) ==
    LET ext == b \o c
        max_bytes == max_samples * BytesPerSample
    IN IF ByteLen(ext) > max_bytes THEN RunSliceFrom(ext, 0 - max_bytes)
       ELSE ext

\* A has_voice sequence: a frames without voice, b with, c without.
Pattern(a, b, c) ==
    [i \in 1..(a + b + c) |-> i > a /\ i <= a + b]

\* The defaults of stream_with_vad (durations in milliseconds, the pre-roll
\* in microseconds as for CbMaxSamples).
VadDefaults ==
    [max_duration |-> 5000, pre_roll_duration |-> 500000,
     silence_timeout |-> 300]

Run(cfg, frames) ==
    [max_duration |-> cfg.max_duration,
     pre_roll_duration |-> cfg.pre_roll_duration,
     silence_timeout |-> cfg.silence_timeout, frames |-> frames]

\* 0.5 s without voice, 1.0 s with, 0.5 s without
SilenceScenario == Run(VadDefaults, Pattern(5, 10, 5))

\* 6 s of voice
SplitScenario == Run(VadDefaults, Pattern(0, 60, 0))

\* 10.5 s of voice
LongScenario == Run(VadDefaults, Pattern(0, 105, 0))

\* Short arguments, with which a few frames fill a segment: a pre-roll of
\* two and a half frames, and one whose capacity int() truncates to 0.
ShortCfgs ==
    { [max_duration |-> 300, pre_roll_duration |-> 250000,
       silence_timeout |-> 200],
      [max_duration |-> 250, pre_roll_duration |-> 50,
       silence_timeout |-> 200] }

RECURSIVE BoolSeqs(_)
BoolSeqs(n) ==
    IF n = 0 THEN { <<>> }
    ELSE LET S == BoolSeqs(n - 1) IN
         S \cup { Append(q, v) : q \in { x \in S : Len(x) = n - 1 },
                                 v \in BOOLEAN }

VadRuns ==
    { SilenceScenario, SplitScenario, LongScenario }
    \cup { Run(cfg, q) : cfg \in ShortCfgs, q \in BoolSeqs(MaxFrames) }

\* The arguments as doubles, and pre_roll.max_samples.
MaxDuration == FDiv(vad_run.max_duration, 1000)
SilenceTimeout == FDiv(vad_run.silence_timeout, 1000)
PreRollMaxSamples == CbMaxSamples(vad_run.pre_roll_duration)

\* Lines 128-134: the state on entry to the loop.
InitVad ==
    /\ InitRoute
    /\ InitNoBuffer
    /\ InitNoSpeech
    /\ vad_run \in VadRuns
    /\ input = vad_run.frames
    /\ nframes = 0
    /\ pre_roll = <<>>
    /\ current_chunk = <<>>
    /\ speech_active = FALSE
    /\ silence_duration = FZero
    /\ chunk_duration = FZero
    /\ yielded = <<>>
    /\ after_cutoff = FALSE
    /\ vad_pc = "run"
    /\ pending = <<>>
    /\ chunk_id = 0
    /\ dropped_chunks = 0
    /\ dropped_bytes = 0
    /\ handled = <<>>

\* yield bytes(current_chunk): the segment, with what the properties need to
\* know of it (the line that yielded it, whether it continues a segment cut
\* at line 168, and the number of the last frame read).
Yield(out, data, line, cont, last) ==
    Append(out, [data |-> data, line |-> line, cont |-> cont, last |-> last])

\* "if not speech_active": current_chunk = bytearray(pre_roll.get_all())
Seed(pre) == pre

GoIdleAfterCutoff == FALSE

\* "# Stay in speech_active mode" (line 171): speech_active after the yield
\* of line 168.
StayActiveAfterCutoff == TRUE

SegmentNeverFull(dur) == FALSE

\* "if chunk_duration >= max_duration" (line 167)
SegmentFull(dur) == FGeq(dur, MaxDuration)

ClosesOnSilenceOnly(sil, dur) == FGeq(sil, SilenceTimeout)

\* "if silence_duration >= silence_timeout or chunk_duration >= max_duration"
\* (lines 180-183)
SegmentCloses(sil, dur) ==
    FGeq(sil, SilenceTimeout) \/ FGeq(dur, MaxDuration)

\* One iteration of "while True" (lines 142-188) for a frame with the given
\* has_voice.
VadFrame(has_voice) ==
    LET f == nframes + 1
        audio_bytes == AudioBytes(f)
        chunk_seconds == FDiv(ByteLen(audio_bytes), BYTES_PER_SECOND)
        pre == PreRollAdd(pre_roll, audio_bytes, PreRollMaxSamples)
    IN
    /\ nframes' = f
    /\ pre_roll' = pre
    /\ IF has_voice
       THEN LET start == ~speech_active
                base == IF start THEN Seed(pre) ELSE current_chunk
                dur0 == IF start THEN FDiv(ByteLen(base), BYTES_PER_SECOND)
                        ELSE chunk_duration
                data == base \o audio_bytes
                dur == FAdd(dur0, chunk_seconds)
                cont == ~start /\ after_cutoff
            IN
            /\ silence_duration' = FZero
            /\ IF SegmentFull(dur)
               THEN /\ yielded' = Yield(yielded, data, 168, cont, f)
                    /\ speech_active' = StayActiveAfterCutoff
                    /\ current_chunk' = <<>>
                    /\ chunk_duration' = FZero
                    /\ after_cutoff' = TRUE
               ELSE /\ speech_active' = TRUE
                    /\ current_chunk' = data
                    /\ chunk_duration' = dur
                    /\ after_cutoff' = cont
                    /\ UNCHANGED yielded
       ELSE IF speech_active
       THEN LET data == current_chunk \o audio_bytes
                dur == FAdd(chunk_duration, chunk_seconds)
                sil == FAdd(silence_duration, chunk_seconds)
            IN
            IF SegmentCloses(sil, dur)
            THEN /\ yielded' = Yield(yielded, data, 184, after_cutoff, f)
                 /\ current_chunk' = <<>>
                 /\ chunk_duration' = FZero
                 /\ silence_duration' = FZero
                 /\ speech_active' = FALSE
                 /\ after_cutoff' = FALSE
            ELSE /\ current_chunk' = data
                 /\ chunk_duration' = dur
                 /\ silence_duration' = sil
                 /\ UNCHANGED <<yielded, speech_active, after_cutoff>>
       ELSE UNCHANGED <<current_chunk, chunk_duration, silence_duration,
                        speech_active, yielded, after_cutoff>>

\* main (lines 259-260), with the --queue-capacity of the run.
max_in_flight == IF QueueCapacity > 1 THEN QueueCapacity ELSE 1
max_pending_wide == max_in_flight * 4

max_pending == max_in_flight * 2

\* "for future in pending: if future.done()" ... pending.remove(future)
Reaped(p) == SelectSeq(p, LAMBDA fut : ~fut.done)

\* The body of "for payload in stream" (lines 283-322) for one payload:
\* the finished futures are reaped, and the payload is submitted to the
\* executor when fewer than max_pending futures are left pending, else
\* dropped and counted.
Consume(payload) ==
    LET id == chunk_id + 1
        left == Reaped(pending)
        can_send == Len(left) < max_pending
    IN
    /\ chunk_id' = id
    /\ IF can_send
       THEN /\ pending' = Append(left, [id |-> id, payload |-> payload,
                                        done |-> FALSE])
            /\ UNCHANGED <<dropped_chunks, dropped_bytes>>
       ELSE /\ pending' = left
            /\ dropped_chunks' = dropped_chunks + 1
            /\ dropped_bytes' = dropped_bytes + ByteLen(payload)
    /\ handled' = Append(handled, [id |-> id, payload |-> payload,
                                   sent |-> can_send])

\* A yield of the generator runs the loop body of main before the generator
\* is resumed; without a yield main stays in next(stream).
MainLoop ==
    IF Len(yielded') > Len(yielded)
    THEN Consume(yielded'[Len(yielded')].data)
    ELSE UNCHANGED <<pending, chunk_id, dropped_chunks, dropped_bytes,
                     handled>>

\* stream.read returns the next frame.
VadRead ==
    /\ vad_pc = "run"
    /\ input # <<>>
    /\ VadFrame(Head(input))
    /\ input' = Tail(input)
    /\ MainLoop
    /\ UNCHANGED <<vad_run, vad_pc, svars, tvars, hvars, bvars, pvars>>

NoFinalFlush(active, buf) == FALSE

FlushWhenActive(active, buf) == active

\* "if speech_active and current_chunk" (line 193)
FinalFlush(active, buf) == active /\ buf # <<>>

\* KeyboardInterrupt in stream.read, and the final flush of lines 193-194.
VadInterrupt ==
    /\ vad_pc = "run"
    /\ vad_pc' = "done"
    /\ yielded' = IF FinalFlush(speech_active, current_chunk)
                  THEN Yield(yielded, current_chunk, 194, after_cutoff,
                             nframes)
                  ELSE yielded
    /\ MainLoop
    /\ UNCHANGED <<vad_run, input, nframes, pre_roll, current_chunk,
                   speech_active, silence_duration, chunk_duration,
                   after_cutoff, svars, tvars, hvars, bvars, pvars>>

\* send_request_timed returns in a worker of the executor: the oldest
\* max_in_flight unfinished futures are the ones that have a worker.
FutureDone ==
    /\ vad_pc = "run"
    /\ \E i \in DOMAIN pending :
         /\ ~pending[i].done
         /\ Cardinality({ j \in 1..(i - 1) : ~pending[j].done })
                < max_in_flight
         /\ pending' = [pending EXCEPT ![i].done = TRUE]
    /\ UNCHANGED <<vad_run, input, nframes, pre_roll, current_chunk,
                   speech_active, silence_duration, chunk_duration, yielded,
                   after_cutoff, vad_pc, chunk_id, dropped_chunks,
                   dropped_bytes, handled, svars, tvars, hvars, bvars, pvars>>

NextVad == VadRead \/ VadInterrupt \/ FutureDone

SpecVad == InitVad /\ [][NextVad]_vars

\* ------------------------------------------------------------ properties

RecordingRegistered(reg, rec) ==
    Cardinality({ i \in DOMAIN reg : rec[reg[i].obj] })

\* The step in which /audio/start returns its response.
StartReturns == busy.op = "start" /\ busy'.op = "none"

\* The step in which /audio/stop returns a response to a call that found no
\* recording session.
StopFindsNone ==
    /\ busy = Idle
    /\ ~HasRecording(sessions, is_recording)
    /\ calls' # calls
    /\ reply'.op = "stop"

\* The step in which /audio/stop returns its response to a call that found
\* a recording session, and that session.
StopFound ==
    /\ calls' # calls
    /\ reply'.op = "stop"
    /\ \/ busy.op = "stop"
       \/ busy = Idle /\ HasRecording(sessions, is_recording)

StoppedObj ==
    IF busy.op = "stop" THEN busy.obj
    ELSE FirstRecording(sessions, is_recording).obj

\* C1: in every reachable state at most one session of the registry has
\* is_recording true, and in the state in which a start call returns exactly
\* one has.
C1_SingleRecording ==
    /\ [](RecordingRegistered(sessions, is_recording) <= 1)
    /\ [][StartReturns => RecordingRegistered(sessions', is_recording') = 1]_vars

\* A start has replaced a recording session: both objects still have
\* is_recording true, one of them is registered.
C1_Witness ==
    /\ nalloc = 2
    /\ is_recording[1] /\ is_recording[2]
    /\ reply.op = "start"
    /\ Len(sessions) = 1
    /\ RecordingRegistered(sessions, is_recording) = 1

\* C2: at every instant at most one capture thread holds the microphone
\* device open.
C2_OneDeviceHolder ==
    Cardinality({ s \in Objs : dev[s] = "open" }) <= 1

\* C3: the model constructor runs at most once, and all threads that hold a
\* model hold the same instance.
C3_ModelOnce ==
    /\ nmodel <= 1
    /\ \A a, b \in Objs :
         (tmodel[a] # 0 /\ tmodel[b] # 0) => tmodel[a] = tmodel[b]

\* C4: a stop call that finds no recording session in the registry answers
\* 404 and changes nothing: registry, flags, stop events, transcripts and
\* threads are as before.
C4_StopNotFound ==
    [][StopFindsNone =>
         /\ reply'.status = "404"
         /\ UNCHANGED <<svars, tvars, busy, ws>>]_vars

\* No WebSocket has connected; a session was started and stopped, its thread
\* is still running after the join, and a further stop has answered 404.
C4_Witness ==
    /\ reply.op = "stop"
    /\ reply.status = "404"
    /\ \A w \in Conns : ws[w].pc = "idle"
    /\ nalloc = 1
    /\ stop_event[1]
    /\ ThreadAlive(1)

\* C5: a stop call that finds a recording session answers "stopped" with
\* that session's id and its transcript entries in insertion order, has set
\* its stop_event, and leaves it out of the registry with no registered
\* session recording, so that status then answers idle.
C5_StopReturns ==
    [][StopFound =>
         /\ reply'.status = "stopped"
         /\ reply'.session_id = session_id[StoppedObj]
         /\ reply'.transcriptions = transcriptions'[StoppedObj]
         /\ stop_event'[StoppedObj]
         /\ ~is_recording'[StoppedObj]
         /\ ~Registered(sessions', StoppedObj)
         /\ StatusReply(sessions', is_recording', transcriptions').status
               = "idle"]_vars

\* Stop has returned two transcript entries of the session it stopped.
C5_Witness ==
    /\ reply.op = "stop"
    /\ reply.status = "stopped"
    /\ Len(reply.transcriptions) = 2
    /\ reply.transcriptions[1].text < reply.transcriptions[2].text

\* C6: a capture loop that has ended after opening the device has handed
\* all the audio it captured to the transcription step: nothing is left in
\* its buffer.
C6_StopFlushes ==
    \A s \in Objs :
        (tpc[s] = "dead" /\ dev[s] = "released") => buffer[s] = <<>>

\* C7: no session stays in the registry with is_recording true once the
\* opening of the device has failed for its capture thread.
C7_OpenFailureAborts ==
    \A i \in DOMAIN sessions :
        ~(is_recording[sessions[i].obj] /\ dev[sessions[i].obj] = "failed")

\* The configuration rule of the start interface: the threshold within
\* [0, 1], every duration positive.
ValidConfig(c) ==
    /\ c.vadThreshold >= 0 /\ c.vadThreshold <= 1000
    /\ c.preRollSeconds > 0
    /\ c.silenceTimeout > 0
    /\ c.maxSegmentSeconds > 0

\* C8: a start call with an out-of-range configuration returns a validation
\* error and has registered no session and started no thread.
C8_StartValidates ==
    [][(StartReturns /\ ~ValidConfig(busy.cfg)) =>
         /\ reply'.status = "invalid"
         /\ nalloc' = nalloc
         /\ sessions' = sessions
         /\ tpc' = tpc]_vars

\* C9: any two sessions created have different ids.
C9_UniqueIds ==
    \A a, b \in 1..nalloc : a # b => session_id[a] # session_id[b]

\* The last n elements of a sequence.
Suffix(q, n) == SubSeq(q, Len(q) - n + 1, Len(q))

\* C10: after every add() the buffer is no longer than the capacity in
\* bytes and holds the most recently added bytes.
C10_PreRollBound ==
    /\ Len(cb_buffer) <= cb_max_samples * BytesPerSample
    /\ Len(cb_buffer) <= Len(cb_hist)
    /\ cb_buffer = Suffix(cb_hist, Len(cb_buffer))

\* ------------------------------------------------------------ stream_with_vad: properties

\* The bytes of max_duration seconds of audio, the capacity of pre_roll in
\* bytes, and the bytes of the frames a .. b, each once and in order.
MaxSegmentBytes == vad_run.max_duration * (BYTES_PER_SECOND \div 1000)
PreRollCapacity == PreRollMaxSamples * BytesPerSample

RECURSIVE Frames(_, _)
Frames(a, b) == IF a > b THEN <<>> ELSE AudioBytes(a) \o Frames(a + 1, b)

\* C11: every yielded segment is at most max_duration of audio plus one
\* pre-roll capacity long; a segment that continues after a max-duration
\* cutoff holds no byte read before the cutoff and is at most max_duration
\* long.
C11_SegmentBound ==
    \A i \in DOMAIN yielded :
        LET y == yielded[i] IN
        /\ ByteLen(y.data) <= MaxSegmentBytes + PreRollCapacity
        /\ y.cont =>
            /\ ByteLen(y.data) <= MaxSegmentBytes
            /\ i > 1
            /\ \A j \in DOMAIN y.data : y.data[j].f > yielded[i - 1].last

\* C12: after 0.5 s without voice, 1.0 s with voice and 0.5 s without, under
\* the default arguments, exactly one segment has been yielded, it is the
\* 0.5 s before the voice, the 1.0 s of voice and the first 0.3 s after it,
\* and speech_active is false.
C12_SilenceScenario ==
    (vad_run = SilenceScenario /\ input = <<>>) =>
        /\ Len(yielded) = 1
        /\ yielded[1].data = Frames(1, 18)
        /\ ~speech_active

\* C13: after 6 s of voice under the default arguments one segment has been
\* yielded by the max-duration cutoff, of 5.0 s plus at most the pre-roll
\* capacity; speech_active stays true from then on; the rest is yielded as
\* a second segment when the stream is interrupted, it is 1.0 s long to
\* within one frame and holds only frames read after the cutoff, each once.
C13_SplitScenario ==
    /\ (vad_run = SplitScenario /\ yielded # <<>>) => speech_active
    /\ (vad_run = SplitScenario /\ input = <<>>) =>
        /\ Len(yielded) = IF vad_pc = "done" THEN 2 ELSE 1
        /\ yielded[1].line = 168
        /\ ByteLen(yielded[1].data) >= MaxSegmentBytes
        /\ ByteLen(yielded[1].data) <= MaxSegmentBytes + PreRollCapacity
        /\ vad_pc = "done" =>
            LET y == yielded[2] IN
            /\ y.cont
            /\ y.data = Frames(yielded[1].last + 1, nframes)
            /\ ByteLen(y.data) >= BYTES_PER_SECOND - ByteLen(AudioBytes(1))
            /\ ByteLen(y.data) <= BYTES_PER_SECOND + ByteLen(AudioBytes(1))

C13_Witness ==
    /\ vad_run = SplitScenario
    /\ input = <<>>
    /\ vad_pc = "done"
    /\ Len(yielded) = 2

\* ------------------------------------------------------------ capture thread and stream: properties

\* The step in which transcribe_audio returns to the thread of s.
TranscribeReturns(s) ==
    /\ tpc[s] = "transcribe"
    /\ tpc'[s] # "transcribe" \/ nchunk'[s] # nchunk[s]

\* C14: an entry is appended to a session's transcript exactly in the steps
\* in which transcribe_audio returns non-empty text for a chunk, and it is
\* the entry of that chunk; an empty result or an engine error leaves the
\* transcript as it was and the thread alive.
C14_AppendIffText ==
    [][\A s \in Objs :
        /\ TranscribeReturns(s) =>
            /\ tpc'[s] # "dead"
            /\ transcriptions'[s] =
                 IF text'[s] = "text"
                 THEN Append(transcriptions[s],
                             [text |-> nchunk[s], is_final |-> TRUE])
                 ELSE transcriptions[s]
        /\ transcriptions'[s] # transcriptions[s] =>
            TranscribeReturns(s) /\ text'[s] = "text"]_vars

\* The second chunk came back empty after the first gave an entry.
C14_Witness ==
    \E s \in Objs :
        text[s] = "empty" /\ nchunk[s] = 2 /\ Len(transcriptions[s]) = 1

\* C15: when the engine fails on a chunk the thread stays in its loop (it
\* leaves it only if stop_event is set), and the bytes read but not yet
\* processed stay in its buffer or are taken as the next chunk.
C15_EngineFailureContinues ==
    [][\A s \in Objs :
        (TranscribeReturns(s) /\ text'[s] = "error") =>
            /\ tpc'[s] \in {"read", "transcribe", "close"}
            /\ tpc'[s] = "close" => stop_event[s]
            /\ Len(buffer[s]) - Len(buffer'[s]) =
                 ChunkTarget * (nchunk'[s] - nchunk[s])
            /\ buffer'[s] = Suffix(buffer[s], Len(buffer'[s]))
            /\ tpc'[s] # "transcribe" => Len(buffer'[s]) < ChunkTarget]_vars

\* The engine failed on the first chunk and the second is with the engine.
C15_Witness ==
    \E s \in Objs :
        text[s] = "error" /\ tpc[s] = "transcribe" /\ nchunk[s] = 2

\* The step in which a WebSocket handler looks for a recording session.
AttachStep(w) == ws[w].pc = "accepted" /\ ws'[w].pc # "accepted"

\* C16: a WebSocket connection creates a session and starts its thread
\* exactly when no registered session is recording, and attaches to the
\* recording one otherwise; with at most one recording session before the
\* step there is exactly one after it.
C16_WsCreatesIffNone ==
    [][\A w \in Conns :
        AttachStep(w) =>
            LET n == RecordingRegistered(sessions, is_recording)
                s == ws'[w].sess
            IN
            /\ nalloc' # nalloc <=> n = 0
            /\ n = 0 =>
                /\ s = nalloc + 1
                /\ nalloc' = s
                /\ tpc[s] = "none" /\ tpc'[s] = "start"
            /\ n > 0 =>
                /\ sessions' = sessions /\ tpc' = tpc
                /\ Registered(sessions, s) /\ is_recording[s]
            /\ is_recording'[s]
            /\ Registered(sessions', s)
            /\ n <= 1 => RecordingRegistered(sessions', is_recording') = 1
      ]_vars

\* A connection has attached to the session that /audio/start created.
C16_Witness ==
    \E w \in Conns :
        /\ ws[w].sess = 1
        /\ ws[w].pc \in {"sending", "waiting"}
        /\ nalloc = 1
        /\ reply.op = "start"

\* C17: what a connection has been sent is always a prefix of its session's
\* transcript; a step sends at most the next entry, and sent_count never
\* decreases.
C17_DeliveredPrefix ==
    [][\A w \in Conns :
        LET s == ws'[w].sess
            got == ws'[w].got
        IN
        /\ ws'[w].sent >= ws[w].sent
        /\ got # <<>> =>
            /\ s # NoSession
            /\ Len(got) <= Len(transcriptions'[s])
            /\ got = SubSeq(transcriptions'[s], 1, Len(got))
        /\ \/ got = ws[w].got
           \/ /\ Len(got) = Len(ws[w].got) + 1
              /\ ws[w].got = SubSeq(got, 1, Len(ws[w].got))]_vars

C17_Witness == \E w \in Conns : Len(ws[w].got) = 2

\* C18: a WebSocket handler that the client ended with "stop" or by
\* disconnecting has, when it closes, set the session's stop_event, cleared
\* is_recording and removed the session from the registry; and if no send
\* to the client failed it has been sent every entry of the transcript.
C18_WsStopSequence ==
    \A w \in Conns :
        LET s == ws[w].sess IN
        (ws[w].pc = "closed" /\ ws[w].why # "none") =>
            /\ stop_event[s]
            /\ ~is_recording[s]
            /\ ~Registered(sessions, s)
            /\ (ws[w].why = "stop" /\ ~ThreadAlive(s)) =>
                  ws[w].got = transcriptions[s]

\* C19: a thread opens its input stream at most once, closes only a stream
\* it has opened, closes it once, and has closed it when it ends.
C19_ReleaseOnce ==
    [][\A s \in Objs :
        /\ tpc'[s] = "dead" => dev'[s] \in {"released", "failed"}
        /\ dev'[s] # dev[s] =>
            \/ dev[s] = "none" /\ dev'[s] \in {"open", "failed"}
            \/ dev[s] = "open" /\ dev'[s] = "released"]_vars

C19_Witness == \E s \in Objs : tpc[s] = "dead" /\ dev[s] = "released"

\* C20: a session object that has been removed from the registry has
\* is_recording false.
C20_RetiredNotRecording ==
    \A s \in 1..nalloc : ~Registered(sessions, s) => ~is_recording[s]

\* ------------------------------------------------------------ GET /audio/status: properties

\* The step in which /audio/status answers.
StatusReturns == calls' # calls /\ reply'.op = "status"

\* C21: /audio/status changes nothing but the response; it answers
\* "active" with the id and the transcript length of the recording session
\* exactly when a registered session has is_recording true, and "idle" with
\* no id and count 0 otherwise.
C21_StatusReadsOnly ==
    [][StatusReturns =>
        /\ UNCHANGED <<svars, tvars, busy, ws>>
        /\ IF RecordingRegistered(sessions, is_recording) > 0
           THEN /\ reply'.status = "active"
                /\ \E i \in DOMAIN sessions :
                     /\ is_recording[sessions[i].obj]
                     /\ reply'.session_id = sessions[i].id
                     /\ reply'.session_id = session_id[sessions[i].obj]
                     /\ reply'.count = Len(transcriptions[sessions[i].obj])
           ELSE /\ reply'.status = "idle"
                /\ reply'.session_id = NoId
                /\ reply'.count = 0]_vars

\* /audio/status has answered for a session with one transcript entry.
C21_Witness ==
    /\ reply.op = "status"
    /\ reply.status = "active"
    /\ reply.count = 1

\* ------------------------------------------------------------ stream_with_vad: segments

\* chunk_seconds of a frame, and the step of the loop that handles one frame.
ChunkSeconds == FDiv(ByteLen(AudioBytes(1)), BYTES_PER_SECOND)
FrameStep == vad_pc = "run" /\ nframes' = nframes + 1

\* The step in which a segment is closed by the silence timeout.
ClosedBySilence ==
    /\ FrameStep
    /\ speech_active
    /\ ~Head(input)
    /\ FGeq(FAdd(silence_duration, ChunkSeconds), SilenceTimeout)

\* C22: the pre-roll buffer is empty right after a segment has been closed
\* by the silence timeout: it is cleared at the moment of closing.
C22_PreRollCleared ==
    [][ClosedBySilence => pre_roll' = <<>>]_vars

\* C23: every yielded segment is a run of consecutive frames of the input
\* stream, each frame once and none skipped; only the first may start
\* mid-frame.
C23_Contiguous ==
    \A i \in DOMAIN yielded :
        LET d == yielded[i].data IN
        \A j \in DOMAIN d :
            /\ d[j].hi = ByteLen(AudioBytes(d[j].f))
            /\ j > 1 => (d[j].lo = 0 /\ d[j].f = d[j - 1].f + 1)

\* The frame the step handles, and what the last yielded segment holds.
ThisFrame == AudioBytes(nframes + 1)
Emitted(data) ==
    /\ Len(yielded') = Len(yielded) + 1
    /\ SubSeq(yielded', 1, Len(yielded)) = yielded
    /\ yielded'[Len(yielded')].data = data

\* C24: in state Active a frame with voice is appended to the buffer, adds
\* its length to elapsed and resets silence to 0; if elapsed then reaches
\* max_duration the buffer is emitted, buffer, elapsed and silence are reset,
\* the accumulator remains Active and the pre-roll is not cleared: it holds
\* what the update with this frame left in it.
C24_ActiveSpeech ==
    [][(FrameStep /\ speech_active /\ Head(input)) =>
        LET data == current_chunk \o ThisFrame
            dur == FAdd(chunk_duration, ChunkSeconds)
        IN
        /\ speech_active'
        /\ silence_duration' = FZero
        /\ pre_roll' = PreRollAdd(pre_roll, ThisFrame, PreRollMaxSamples)
        /\ IF FGeq(dur, MaxDuration)
           THEN /\ Emitted(data)
                /\ current_chunk' = <<>>
                /\ chunk_duration' = FZero
           ELSE /\ yielded' = yielded
                /\ current_chunk' = data
                /\ chunk_duration' = dur]_vars

\* A segment was cut at max_duration during speech, the accumulator is
\* Active with an empty buffer and the pre-roll holds audio.
C24_Witness ==
    /\ yielded # <<>>
    /\ yielded[Len(yielded)].line = 168
    /\ speech_active
    /\ current_chunk = <<>>
    /\ chunk_duration = FZero
    /\ pre_roll # <<>>

\* C25: in state Active a frame without voice is appended to the buffer and
\* adds its length to elapsed and to silence; the segment is emitted and the
\* accumulator goes Idle with buffer, elapsed and silence reset exactly when
\* silence >= silence_timeout or elapsed >= max_duration, and otherwise it
\* stays Active and emits nothing.
C25_ActiveSilence ==
    [][(FrameStep /\ speech_active /\ ~Head(input)) =>
        LET data == current_chunk \o ThisFrame
            dur == FAdd(chunk_duration, ChunkSeconds)
            sil == FAdd(silence_duration, ChunkSeconds)
        IN
        IF FGeq(sil, SilenceTimeout) \/ FGeq(dur, MaxDuration)
        THEN /\ Emitted(data)
             /\ ~speech_active'
             /\ current_chunk' = <<>>
             /\ chunk_duration' = FZero
             /\ silence_duration' = FZero
        ELSE /\ yielded' = yielded
             /\ speech_active'
             /\ current_chunk' = data
             /\ chunk_duration' = dur
             /\ silence_duration' = sil]_vars

\* A segment was closed on a frame without voice by max_duration alone: the
\* frame before it had voice, and one frame is less than silence_timeout.
C25_Witness ==
    /\ yielded # <<>>
    /\ yielded[Len(yielded)].line = 184
    /\ yielded[Len(yielded)].last = nframes
    /\ nframes >= 2
    /\ vad_run.frames[nframes - 1]
    /\ ~FGeq(ChunkSeconds, SilenceTimeout)
    /\ ~speech_active

\* ------------------------------------------------------------ capture loop: properties

\* C29: in no reachable state are two calls of the transcription engine in
\* progress at the same time, whichever sessions the threads belong to.
C29_EngineSequential ==
    Cardinality({ s \in Objs : tpc[s] = "transcribe" }) <= 1

InLoop(s) == tpc[s] \in {"read", "transcribe"}

\* The step in which a stream.read of the thread of s raises.
ReadFails(s) ==
    /\ s \in DOMAIN failed_reads
    /\ failed_reads'[s] = failed_reads[s] + 1

\* C26: a failed read does not end the capture loop: with the stop signal
\* unset the thread reads again, the device still open, however many reads
\* have failed before; and the loop is left for the finally block only with
\* the stop signal set.
C26_ReadFailureContinues ==
    [][\A s \in Objs :
        /\ ReadFails(s) =>
             /\ tpc'[s] = IF stop_event[s] THEN "close" ELSE "read"
             /\ dev'[s] = "open"
             /\ buffer'[s] = buffer[s]
        /\ (InLoop(s) /\ ~InLoop(s)') =>
             (stop_event[s] /\ tpc'[s] = "close")]_vars

\* After MaxFail failed reads the loop has read two frames and handed a
\* chunk to the engine, with the stop signal unset.
C26_Witness ==
    \E s \in Objs :
        /\ failed_reads[s] = MaxFail
        /\ nread[s] = 2
        /\ tpc[s] = "transcribe"
        /\ ~stop_event[s]

\* C27: a stop signal that is set stays set; once it is set the loop starts
\* no further read, so that at most the read in progress completes; and,
\* the blocking calls returning, the thread ends with the device released
\* (or never opened, when p.open failed).
C27_StopEndsLoop ==
    /\ [][\A s \in Objs :
            /\ stop_event[s] => stop_event'[s]
            /\ (stop_event[s] /\ tpc[s] # "read") => tpc'[s] # "read"]_vars
    /\ \A s \in Objs :
         (stop_event[s] /\ ThreadAlive(s)) ~>
            (tpc[s] = "dead" /\ dev[s] \in {"released", "failed"})

\* A thread was stopped while in a read, and has ended and released the
\* device it had opened.
C27_Witness ==
    \E s \in Objs :
        /\ stop_event[s]
        /\ tpc[s] = "dead"
        /\ dev[s] = "released"
        /\ nread[s] >= 1

\* The step in which the join of /audio/start returns.
StartJoinReturns == busy.op = "start" /\ busy.joining /\ ~busy'.joining

\* C28: a start or stop call that has begun completes whatever the capture
\* threads do: the join returns, the joined session is removed from the
\* registry whether or not its thread has ended, start registers a new
\* recording session and launches its thread, and stop answers with the
\* transcript of the session it stopped.
C28_CallsComplete ==
    /\ (busy.op = "start") ~> (busy = Idle /\ reply.op = "start")
    /\ (busy.op = "stop") ~>
          (busy = Idle /\ reply.op = "stop" /\ reply.status = "stopped")
    /\ [][/\ StartJoinReturns =>
               \A i \in DOMAIN sessions' :
                    sessions'[i].id # Head(busy.todo).id
          /\ StartReturns =>
               /\ nalloc' = nalloc + 1
               /\ Registered(sessions', nalloc')
               /\ is_recording'[nalloc']
               /\ tpc'[nalloc'] = "start"
               /\ reply'.status = "recording"
          /\ StopFound =>
               /\ reply'.transcriptions = transcriptions[StoppedObj]
               /\ ~Registered(sessions', StoppedObj)]_vars

\* A start has returned with its new session registered while the thread of
\* the session it replaced, removed from the registry, is still in a read in
\* which it has not seen the stop signal.
C28_Witness ==
    /\ busy = Idle
    /\ reply.op = "start"
    /\ nalloc = 2
    /\ Registered(sessions, 2)
    /\ ~Registered(sessions, 1)
    /\ stop_event[1]
    /\ tpc[1] = "read"

\* ------------------------------------------------------------ main: properties

\* The step in which the capture of stream_with_vad is interrupted.
Interrupted == vad_pc = "run" /\ vad_pc' = "done"

\* The loop body of main has run for the payload: it has the next chunk_id
\* and was submitted to the executor, or dropped and counted.
HandledAsNext(payload) ==
    LET h == handled'[Len(handled')] IN
    /\ Len(handled') = Len(handled) + 1
    /\ chunk_id' = chunk_id + 1
    /\ h.id = chunk_id'
    /\ h.payload = payload
    /\ IF h.sent
       THEN /\ pending' # <<>>
            /\ pending'[Len(pending')] =
                 [id |-> chunk_id', payload |-> payload, done |-> FALSE]
            /\ dropped_chunks' = dropped_chunks
       ELSE /\ dropped_chunks' = dropped_chunks + 1
            /\ dropped_bytes' = dropped_bytes + ByteLen(payload)

\* C30: interrupted while Active with a non-empty buffer, stream_with_vad
\* yields that buffer as one more segment, and the loop body of main runs
\* for it; interrupted while Idle or with an empty buffer it yields nothing;
\* and once it has ended nothing further is yielded or handled.
C30_FinalFlush ==
    [][/\ Interrupted =>
            IF speech_active /\ current_chunk # <<>>
            THEN /\ Emitted(current_chunk)
                 /\ yielded'[Len(yielded')].line = 194
                 /\ HandledAsNext(current_chunk)
            ELSE /\ yielded' = yielded
                 /\ handled' = handled
                 /\ chunk_id' = chunk_id
       /\ vad_pc = "done" =>
            /\ yielded' = yielded
            /\ handled' = handled]_vars

\* The final segment was yielded by the flush and submitted by main while
\* an earlier request was still pending.
C30_Witness ==
    /\ vad_pc = "done"
    /\ yielded # <<>>
    /\ yielded[Len(yielded)].line = 194
    /\ Len(handled) = Len(yielded)
    /\ handled[Len(handled)].sent
    /\ Len(pending) = 2
    /\ pending[2].payload = yielded[Len(yielded)].data

\* ------------------------------------------------------------ has_speech: properties

\* The frames of the chunk that the VAD classified, and those it classified
\* as speech.
Classified == { i \in DOMAIN hs_frames : hs_frames[i] # "raise" }
Speech == { i \in DOMAIN hs_frames : hs_frames[i] = "speech" }

\* C31: has_speech returns True exactly when the chunk has a classified
\* complete frame and at least 20% of the classified frames are speech.
C31_AtLeastFifth ==
    hs_result \in {"True", "False"} =>
        (hs_result = "True" <=>
            /\ Classified # {}
            /\ 5 * Cardinality(Speech) >= Cardinality(Classified))

\* ------------------------------------------------------------ stream_with_vad: more properties

\* C32: every segment yielded, the final flush included, holds at least one
\* byte.
C32_SegmentsNonEmpty ==
    \A i \in DOMAIN yielded : ByteLen(yielded[i].data) > 0

\* The stream was interrupted right after a max-duration cutoff had left
\* the buffer empty with speech_active true: nothing was flushed.
C32_Witness ==
    /\ vad_pc = "done"
    /\ speech_active
    /\ current_chunk = <<>>
    /\ yielded # <<>>
    /\ yielded[Len(yielded)].line = 168

\* C33: every segment yielded holds at least one frame in which voice was
\* detected.
C33_SegmentHasSpeech ==
    \A i \in DOMAIN yielded :
        \E j \in DOMAIN yielded[i].data :
            vad_run.frames[yielded[i].data[j].f]

\* The bytes of the frames without voice at the end of b.
RECURSIVE TrailingSilence(_)
TrailingSilence(b) ==
    IF b = <<>> THEN 0
    ELSE LET r == b[Len(b)] IN
         IF vad_run.frames[r.f] THEN 0
         ELSE r.hi - r.lo + TrailingSilence(SubSeq(b, 1, Len(b) - 1))

\* C34: between frames the counters agree with the buffer: chunk_duration
\* is len(current_chunk) / BYTES_PER_SECOND, silence_duration is at most
\* chunk_duration and is the length of the frames without voice that end
\* the buffer, and while Idle the buffer is empty and both counters are 0.
C34_CountersAgree ==
    /\ chunk_duration = FDiv(ByteLen(current_chunk), BYTES_PER_SECOND)
    /\ FGeq(chunk_duration, silence_duration)
    /\ silence_duration =
          FDiv(TrailingSilence(current_chunk), BYTES_PER_SECOND)
    /\ ~speech_active =>
          /\ current_chunk = <<>>
          /\ chunk_duration = FZero
          /\ silence_duration = FZero

\* ------------------------------------------------------------ capture loop: chunking

\* The bytes a + 1 .. b of the audio a thread has read.
Audio(a, b) == [i \in 1..(b - a) |-> a + i]

\* C35: the capture loop conserves the audio and cuts it exactly: what is
\* left in the buffer is what was read after the chunks taken so far, each
\* of chunk_target bytes; the chunk in the engine is the last of them; and
\* at the top of the loop the buffer is shorter than chunk_target.
C35_ChunkingConserves ==
    \A s \in Objs :
        LET read == nread[s] * FrameBytes
            cut == nchunk[s] * ChunkTarget
        IN
        /\ cut <= read
        /\ buffer[s] = Audio(cut, read)
        /\ tpc[s] = "transcribe" => chunk[s] = Audio(cut - ChunkTarget, cut)
        /\ tpc[s] \in {"read", "close"} => Len(buffer[s]) < ChunkTarget

\* A thread has cut one chunk, read on, and is at the top of its loop with
\* a residue in the buffer.
C35_Witness ==
    \E s \in Objs :
        /\ tpc[s] = "read"
        /\ nchunk[s] = 1
        /\ nread[s] = 3
        /\ buffer[s] # <<>>

\* ------------------------------------------------------------ main: backlog

\* 2 * max(1, queue_capacity), the entries of handled that were submitted,
\* and the step in which the loop body of main runs for a payload.
PendingLimit == 2 * (IF QueueCapacity > 1 THEN QueueCapacity ELSE 1)
Submitted == { i \in DOMAIN handled : handled[i].sent }
Consumes == chunk_id' = chunk_id + 1

\* C36: pending never holds more than 2 * max(1, queue_capacity) requests;
\* every yielded segment is either submitted or dropped (chunk_id is the
\* number submitted plus dropped_chunks); a segment is dropped exactly
\* when, the finished requests reaped, pending already holds that many;
\* and the loop body runs to its end in the step of the yield, whatever
\* pending holds, so that the generator is resumed.
C36_Backpressure ==
    [][/\ Len(pending') <= PendingLimit
       /\ chunk_id' = Len(yielded')
       /\ chunk_id' = Cardinality(Submitted') + dropped_chunks'
       /\ Consumes =>
            LET unfinished == { i \in DOMAIN pending : ~pending[i].done }
                h == handled'[Len(handled')]
            IN
            /\ Len(handled') = Len(handled) + 1
            /\ h.sent <=> Cardinality(unfinished) < PendingLimit
            /\ dropped_chunks' =
                 IF h.sent THEN dropped_chunks ELSE dropped_chunks + 1
            /\ Len(pending') =
                 Cardinality(unfinished) + (IF h.sent THEN 1 ELSE 0)]_vars

\* A third segment was dropped while two requests were still unfinished,
\* and the generator went on to read a further frame.
C36_Witness ==
    /\ chunk_id = 3
    /\ dropped_chunks = 1
    /\ Len(pending) = PendingLimit
    /\ \A i \in DOMAIN pending : ~pending[i].done
    /\ nframes > yielded[Len(yielded)].last

\* ------------------------------------------------------------ WS /audio/stream: more properties

\* The step in which the handler of w closes its channel.
WsCloses(w) == ws[w].pc # "closed" /\ ws'[w].pc = "closed"

\* C37: a channel that closes without a send to its client having failed
\* has delivered every entry its session's transcript holds at that moment,
\* whoever ended the session.
C37_ConsumerGetsAll ==
    [][\A w \in Conns :
        (WsCloses(w) /\ ws[w].sess # NoSession /\ ws[w].why # "disconnect")
            => ws'[w].got = transcriptions'[ws[w].sess]]_vars

\* A step of the handler of w after it has taken its session.
WsStep(w) == ws'[w] # ws[w] /\ ws[w].sess # NoSession

\* C38: the handler of a channel touches no session but its own: whatever
\* it does from its loop to the close, every other session stays as it was,
\* registered or not, with its is_recording, its stop signal and its thread.
C38_CloseTouchesOwnSession ==
    [][\A w \in Conns : WsStep(w) =>
        \A o \in Objs \ {ws[w].sess} :
            /\ Registered(sessions', o) <=> Registered(sessions, o)
            /\ is_recording'[o] = is_recording[o]
            /\ stop_event'[o] = stop_event[o]
            /\ tpc'[o] = tpc[o]]_vars

\* ------------------------------------------------------------ registry: more properties

\* C39: while no handler is inside a blocking join, that is at every point
\* where handlers interleave, the registry holds at most one session, and
\* every session it holds has is_recording true.
C39_RegistryOneRecording ==
    busy = Idle =>
        /\ Len(sessions) <= 1
        /\ \A i \in DOMAIN sessions : is_recording[sessions[i].obj]

\* The last response is that of a stop call that stopped s: the response
\* carries the id of s, which no other session object has, and s is out of
\* the registry with its stop_event set.
StopReturnedFor(s) ==
    /\ s <= nalloc
    /\ reply.op = "stop"
    /\ reply.status = "stopped"
    /\ reply.session_id = session_id[s]
    /\ \A o \in 1..nalloc : o # s => session_id[o] # session_id[s]
    /\ busy.op # "stop"
    /\ stop_event[s]
    /\ ~is_recording[s]
    /\ ~Registered(sessions, s)

\* C40: once stop has returned for a session, also after a join that timed
\* out, the transcript of that session never grows: it stays the copy that
\* the response carries.
C40_StoppedTranscriptFrozen ==
    [][\A s \in Objs :
          StopReturnedFor(s) => transcriptions'[s] = transcriptions[s]]_vars

=============================================================================
